---------------------------- MODULE Spec2Model ----------------------------
(***************************************************************************)
(* A model of the lexical and declaration-level front end of lang-test:    *)
(* the tokenizer (src/src/tokenizer.rs) and the declaration parser         *)
(* (src/src/ast.rs).                                                       *)
(*                                                                         *)
(* A text is a sequence of code points.  An ASCII code point is the        *)
(* one-character string that spells it; a code point outside ASCII is      *)
(* written "U+xxxx".  A Rust String is likewise a sequence of code points. *)
(* Option<T> is a sequence of length at most one: None is << >> and        *)
(* Some(x) is << x >>.  A HashMap is a function on its key set.            *)
(***************************************************************************)
EXTENDS Integers, Sequences, FiniteSets, TLC

None == << >>
Some(x) == << x >>

(***************************************************************************)
(* Character classes.                                                      *)
(***************************************************************************)
AsciiUpper ==
    {"A","B","C","D","E","F","G","H","I","J","K","L","M",
     "N","O","P","Q","R","S","T","U","V","W","X","Y","Z"}

AsciiLower ==
    {"a","b","c","d","e","f","g","h","i","j","k","l","m",
     "n","o","p","q","r","s","t","u","v","w","x","y","z"}

AsciiDigit == {"0","1","2","3","4","5","6","7","8","9"}

\* Letters outside ASCII that are XID_Start (e with acute, greek alpha).
NonAsciiLetter == {"U+00E9", "U+03B1"}

\* char::is_whitespace, on the code points the model writes.
is_whitespace(c) == c \in {" ", "\t", "\n", "\r"}

\* UnicodeXID::is_xid_start: letters; not digits, not the underscore.
is_xid_start(c) == c \in AsciiUpper \cup AsciiLower \cup NonAsciiLetter

\* UnicodeXID::is_xid_continue: XID_Start, digits and the underscore.
is_xid_continue(c) == is_xid_start(c) \/ c \in AsciiDigit \/ c = "_"

(***************************************************************************)
(* The fixed operator list and the table built from it.                    *)
(***************************************************************************)
OTHER_TOKENS ==
    << [chars |-> <<"{">>,      kind |-> "OpenBraces"],
       [chars |-> <<"}">>,      kind |-> "CloseBraces"],
       [chars |-> <<"(">>,      kind |-> "OpenParentheses"],
       [chars |-> <<")">>,      kind |-> "CloseParentheses"],
       [chars |-> <<"+">>,      kind |-> "Plus"],
       [chars |-> <<"-">>,      kind |-> "Minus"],
       [chars |-> <<"*">>,      kind |-> "Mul"],
       [chars |-> <<"/">>,      kind |-> "Div"],
       [chars |-> <<"%">>,      kind |-> "Rem"],
       [chars |-> <<"=">>,      kind |-> "Assign"],
       [chars |-> <<"=","=">>,  kind |-> "Equal"],
       [chars |-> <<":">>,      kind |-> "FieldTypeSeparator"],
       [chars |-> <<":","=">>,  kind |-> "DefineVar"],
       [chars |-> <<">">>,      kind |-> "Greater"],
       [chars |-> <<">","=">>,  kind |-> "GreaterOrEqual"],
       [chars |-> <<"<">>,      kind |-> "Less"],
       [chars |-> <<"<","=">>,  kind |-> "LessOrEqual"],
       [chars |-> <<"!">>,      kind |-> "Not"],
       [chars |-> <<"|">>,      kind |-> "Or"],
       [chars |-> <<"&">>,      kind |-> "And"],
       [chars |-> <<"^">>,      kind |-> "Xor"],
       [chars |-> <<",">>,      kind |-> "Comma"],
       [chars |-> <<";">>,      kind |-> "EndOfStatement"],
       [chars |-> <<"-",">">>,  kind |-> "RightArrow"] >>

\* HashMap::insert: the new value replaces an old one.
MapInsert(m, k, v) == [x \in DOMAIN m \cup {k} |-> IF x = k THEN v ELSE m[x]]

\* HashMap::entry(k).or_insert(v): an old value is kept.
MapOrInsert(m, k, v) == IF k \in DOMAIN m THEN m ELSE MapInsert(m, k, v)

\* HashMap::get.
MapGet(m, k) == IF k \in DOMAIN m THEN Some(m[k]) ELSE None

EmptyMap == << >>

\* The inner loop marking token_chars[..l + 1] instead of token_chars[..l]:
\* the empty prefix is never marked (a plausible slip; used to test C14).
RECURSIVE InsertPrefixesNonEmpty(_, _, _)
InsertPrefixesNonEmpty(m, token_chars, l) ==
    IF l >= Len(token_chars) - 1 THEN m
    ELSE InsertPrefixesNonEmpty(
             MapOrInsert(m, SubSeq(token_chars, 1, l + 1), None),
             token_chars, l + 1)

\* The inner loop of TOKEN_MAP: for l in from..token_chars.len() - 1 (end
\* excluded), mark token_chars[..l] as a valid prefix unless it has an entry.
RECURSIVE InsertPrefixes(_, _, _)
InsertPrefixes(m, token_chars, l) ==
    IF l >= Len(token_chars) - 1 THEN m
    ELSE InsertPrefixes(MapOrInsert(m, SubSeq(token_chars, 1, l), None),
                        token_chars, l + 1)

\* One iteration of the outer loop of TOKEN_MAP: the prefix markers of the
\* entry, then token_map.insert(token_chars, Some(token)).
InsertEntry(m, e) ==
    MapInsert(InsertPrefixes(m, e.chars, 0), e.chars, Some(e.kind))

\* The outer loop of TOKEN_MAP over the first n entries of OTHER_TOKENS.
RECURSIVE BuildTokenMap(_)
BuildTokenMap(n) ==
    IF n = 0 THEN EmptyMap
    ELSE InsertEntry(BuildTokenMap(n - 1), OTHER_TOKENS[n])

TOKEN_MAP == BuildTokenMap(Len(OTHER_TOKENS))

(***************************************************************************)
(* CharLocationScanner: the location of the current code point, the        *)
(* current code point (None at end of input) and the code points after it. *)
(***************************************************************************)
Location(line, column) == [line |-> line, column |-> column]

\* Chars::next.
CharsNext(s) == IF s = << >> THEN None ELSE Some(Head(s))
CharsRest(s) == IF s = << >> THEN << >> ELSE Tail(s)

ScannerNew(text) ==
    [cur_location |-> Location(1, 1),
     cur_char     |-> CharsNext(text),
     chars        |-> CharsRest(text)]

current_char(sc) == sc.cur_char

current_location(sc) == sc.cur_location

\* advance without the newline rule (a plausible slip; used to test C2).
advance_same_line(sc) ==
    [cur_location |-> Location(sc.cur_location.line, sc.cur_location.column + 1),
     cur_char     |-> CharsNext(sc.chars),
     chars        |-> CharsRest(sc.chars)]

\* advance resetting the column at a newline but not counting the line (a
\* plausible slip; used to test C12).
advance_forgets_line(sc) ==
    [cur_location |->
        Location(sc.cur_location.line,
                 IF sc.cur_char = Some("\n") THEN 1
                 ELSE sc.cur_location.column + 1),
     cur_char     |-> CharsNext(sc.chars),
     chars        |-> CharsRest(sc.chars)]

advance(sc) ==
    LET Advanced(s) ==
            LET loc == IF s.cur_char = Some("\n")
                       THEN Location(s.cur_location.line + 1, 0)
                       ELSE s.cur_location
            IN  [cur_location |-> Location(loc.line, loc.column + 1),
                 cur_char     |-> CharsNext(s.chars),
                 chars        |-> CharsRest(s.chars)]
    \* the scanner is taken once, as a value, and advanced
    IN  CHOOSE r \in {Advanced(s) : s \in {sc}} : TRUE


(***************************************************************************)
(* Results.  A call returns Ok(value) or Err(error), or it panics.         *)
(***************************************************************************)
Ok(v) == [tag |-> "Ok", value |-> v]
Err(e) == [tag |-> "Err", error |-> e]
Panic == [tag |-> "Panic"]
Running == [tag |-> "Running"]

TokenizingError(location, kind) == [location |-> location, kind |-> kind]

\* Token::new.
Token(token_kind, location) == [token_kind |-> token_kind, location |-> location]

(***************************************************************************)
(* The token routines.  Each takes the scanner and returns the scanner it  *)
(* leaves behind (chars) and the value it returns (ret).                   *)
(***************************************************************************)

\* The comment loop passing the # alone (a plausible slip; used to test C6).
SkipCommentMarkerOnly(sc) == advance(sc)

\* The comment branch of tokenize_text: advance through the next newline.
RECURSIVE SkipCommentLoop(_)
SkipCommentLoop(sc) ==
    IF current_char(sc) = None THEN sc
    ELSE IF current_char(sc) = Some("\n") THEN advance(sc)
    ELSE SkipCommentLoop(advance(sc))

RECURSIVE IdentifierLoop(_, _)
IdentifierLoop(sc, token_chars) ==
    IF current_char(sc) # None /\ is_xid_continue(current_char(sc)[1])
    THEN IdentifierLoop(advance(sc), Append(token_chars, current_char(sc)[1]))
    ELSE [chars |-> sc, ret |-> token_chars]

tokenize_identifier_or_keyword(sc) == IdentifierLoop(sc, << >>)

\* The integer loop keeping the separators (a plausible slip; used to test C3).
RECURSIVE IntegerLoopKeepsSeparator(_, _)
IntegerLoopKeepsSeparator(sc, digits) ==
    IF current_char(sc) = None THEN [chars |-> sc, ret |-> Ok(digits)]
    ELSE LET c == current_char(sc)[1]
         IN  IF c \in AsciiDigit \/ c = "_"
             THEN IntegerLoopKeepsSeparator(advance(sc), Append(digits, c))
             ELSE IF c \in AsciiUpper \cup AsciiLower
                  THEN [chars |-> sc,
                        ret   |-> Err(TokenizingError(current_location(sc),
                                                      "InvalidSuffix"))]
             ELSE [chars |-> sc, ret |-> Ok(digits)]

\* The integer loop ending the literal at a letter (a plausible slip; used to
\* test C4).
RECURSIVE IntegerLoopLetterEnds(_, _)
IntegerLoopLetterEnds(sc, digits) ==
    IF current_char(sc) = None THEN [chars |-> sc, ret |-> Ok(digits)]
    ELSE LET c == current_char(sc)[1]
         IN  IF c \in AsciiDigit
             THEN IntegerLoopLetterEnds(advance(sc), Append(digits, c))
             ELSE IF c = "_" THEN IntegerLoopLetterEnds(advance(sc), digits)
             ELSE [chars |-> sc, ret |-> Ok(digits)]

RECURSIVE IntegerLoop(_, _)
IntegerLoop(sc, digits) ==
    IF current_char(sc) = None THEN [chars |-> sc, ret |-> Ok(digits)]
    ELSE LET c == current_char(sc)[1]
         IN  IF c \in AsciiDigit THEN IntegerLoop(advance(sc), Append(digits, c))
             ELSE IF c = "_" THEN IntegerLoop(advance(sc), digits)
             ELSE IF c \in AsciiUpper \cup AsciiLower
                  THEN [chars |-> sc,
                        ret   |-> Err(TokenizingError(current_location(sc),
                                                      "InvalidSuffix"))]
             ELSE [chars |-> sc, ret |-> Ok(digits)]

tokenize_integer(sc) ==
    IF current_char(sc) # None /\ current_char(sc)[1] \in AsciiDigit
    THEN IntegerLoop(sc, << >>)
    ELSE [chars |-> sc, ret |-> Panic]

\* The escape specifiers of a string literal and what they decode to.
EscapeDecode(c) ==
    IF c = "\"" THEN Some("\"")
    ELSE IF c = "\\" THEN Some("\\")
    ELSE IF c = "n" THEN Some("\n")
    ELSE IF c = "r" THEN Some("\r")
    ELSE IF c = "t" THEN Some("\t")
    ELSE None

\* The string loop reporting a bad escape at the backslash (a plausible slip;
\* used to test C5).
RECURSIVE StringLoopErrorAtBackslash(_, _)
StringLoopErrorAtBackslash(sc, string) ==
    IF current_char(sc) = None THEN [chars |-> sc, ret |-> Ok(string)]
    ELSE LET c == current_char(sc)[1]
         IN  IF c = "\\"
             THEN LET sc1 == advance(sc)
                      d   == IF current_char(sc1) = None THEN None
                             ELSE EscapeDecode(current_char(sc1)[1])
                  IN  IF d = None
                      THEN [chars |-> sc1,
                            ret   |-> Err(TokenizingError(current_location(sc),
                                                          "InvalidEscape"))]
                      ELSE StringLoopErrorAtBackslash(advance(sc1),
                                                      Append(string, d[1]))
             ELSE IF c = "\""
                  THEN [chars |-> advance(sc), ret |-> Ok(string)]
             ELSE StringLoopErrorAtBackslash(advance(sc), Append(string, c))

RECURSIVE StringLoop(_, _)
StringLoop(sc, string) ==
    IF current_char(sc) = None THEN [chars |-> sc, ret |-> Ok(string)]
    ELSE LET c == current_char(sc)[1]
         IN  IF c = "\\"
             THEN LET sc1 == advance(sc)
                      d   == IF current_char(sc1) = None THEN None
                             ELSE EscapeDecode(current_char(sc1)[1])
                  IN  IF d = None
                      THEN [chars |-> sc1,
                            ret   |-> Err(TokenizingError(current_location(sc1),
                                                          "InvalidEscape"))]
                      ELSE StringLoop(advance(sc1), Append(string, d[1]))
             ELSE IF c = "\""
                  THEN [chars |-> advance(sc), ret |-> Ok(string)]
             ELSE StringLoop(advance(sc), Append(string, c))

tokenize_string(sc) ==
    IF current_char(sc) = Some("\"")
    THEN StringLoop(advance(sc), << >>)
    ELSE [chars |-> sc, ret |-> Panic]

\* The operator loop stopping at its first complete token (a plausible slip;
\* used to test C1).
RECURSIVE OtherLoopFirstMatch(_, _, _, _)
OtherLoopFirstMatch(sc, cur_chars, cur_candidate, continue_chars) ==
    LET entry == MapGet(TOKEN_MAP, cur_chars)
    IN  IF entry = None
        THEN [chars |-> continue_chars, ret |-> cur_candidate]
        ELSE IF entry[1] # None
        THEN [chars |-> sc, ret |-> entry[1]]
        ELSE IF current_char(sc) = None
        THEN [chars |-> continue_chars, ret |-> cur_candidate]
        ELSE OtherLoopFirstMatch(advance(sc),
                                 Append(cur_chars, current_char(sc)[1]),
                                 cur_candidate, continue_chars)

\* The loop without *chars = continue_chars: the scanner stays where the
\* lookahead stopped (a plausible slip; used to test C15).
RECURSIVE OtherLoopNoRollback(_, _, _, _)
OtherLoopNoRollback(sc, cur_chars, cur_candidate, continue_chars) ==
    LET entry == MapGet(TOKEN_MAP, cur_chars)
    IN  IF entry = None
        THEN [chars |-> sc, ret |-> cur_candidate]
        ELSE LET cand == IF entry[1] # None THEN entry[1] ELSE cur_candidate
             IN  IF current_char(sc) = None
                 THEN [chars |-> sc, ret |-> cand]
                 ELSE OtherLoopNoRollback(advance(sc),
                                          Append(cur_chars, current_char(sc)[1]),
                                          cand, continue_chars)

\* The loop of tokenize_other_token: sc is the scanner, cur_chars the prefix
\* read so far, cur_candidate the best complete token and continue_chars the
\* scanner right after it.
RECURSIVE OtherLoop(_, _, _, _)
OtherLoop(sc, cur_chars, cur_candidate, continue_chars) ==
    LET entry == MapGet(TOKEN_MAP, cur_chars)
    IN  IF entry = None
        THEN [chars |-> continue_chars, ret |-> cur_candidate]
        ELSE LET hit  == entry[1] # None
                 cand == IF hit THEN entry[1] ELSE cur_candidate
                 cont == IF hit THEN sc ELSE continue_chars
             IN  IF current_char(sc) = None
                 THEN [chars |-> cont, ret |-> cand]
                 ELSE OtherLoop(advance(sc),
                                Append(cur_chars, current_char(sc)[1]),
                                cand, cont)

tokenize_other_token(sc) == OtherLoop(sc, << >>, None, sc)

\* The keyword match of tokenize_text.
KeywordKind(s) ==
    IF s = <<"f","n">> THEN Some("FunctionDefinition")
    ELSE IF s = <<"m","u","t">> THEN Some("Mutable")
    ELSE IF s = <<"s","t","r","u","c","t">> THEN Some("Struct")
    ELSE None

\* The arm of the match in tokenize_text that a code point selects.
Branch(c) ==
    IF is_whitespace(c) THEN "whitespace"
    ELSE IF c = "#" THEN "comment"
    ELSE IF is_xid_start(c) THEN "identifier"
    ELSE IF c \in AsciiDigit THEN "integer"
    ELSE IF c = "\"" THEN "string"
    ELSE "other"

\* LiteralData.
LiteralData(ids, ints, strs) ==
    [identifiers |-> ids, integer_literals |-> ints, string_literals |-> strs]

try_get_identifier(literal_data, token) ==
    IF token.token_kind = "Identifier"
    THEN MapGet(literal_data.identifiers, token.location)
    ELSE None

try_get_integer_literal(literal_data, token) ==
    IF token.token_kind = "IntegerLiteral"
    THEN MapGet(literal_data.integer_literals, token.location)
    ELSE None

try_get_string_literal(literal_data, token) ==
    IF token.token_kind = "StringLiteral"
    THEN MapGet(literal_data.string_literals, token.location)
    ELSE None

(***************************************************************************)
(* The input texts.                                                        *)
(***************************************************************************)
MaxLen == 4
MaxShort == 2
MaxFields == 2
MaxDecls == 2

\* Every text of at most n code points of the alphabet A.
Texts(A, n) == UNION {[1..k -> A] : k \in 0..n}

OperatorAlphabet == {"=", ":", ">", "<", "-", "\n"}
IntegerAlphabet == {"1", "2", "_", "a", "U+00E9", " "}
StringAlphabet == {"\"", "\\", "n", "q", "\n", "="}
CommentAlphabet == {"#", " ", "\n", "a", "=", "@"}
FullAlphabet ==
    OperatorAlphabet \cup IntegerAlphabet \cup StringAlphabet
        \cup CommentAlphabet \cup {"r", "t", "\t", ",", "{", "}", "(", ")"}

\* The texts of the tests of tokenizer.rs and of the documentation.
ExampleTexts ==
    { <<"h","e","l","l","o",","," ","w","o","r","l","d","!">>,
      <<"=",":","=",":","=">>,
      <<"=",":","=">>,
      <<"=","\n","=">>,
      <<"f","i","r","s","t","\n","s","e","c","o","n","d">>,
      <<"1","2","3","a","b","c">>,
      <<"1","_","0","0","0"," ","4","2">>,
      <<"\"","a","\\","q","\"">>,
      <<"\"","\\","r","\\","t","\\","n","\\","\\","\\","\"","\"","=">>,
      <<"\"","a","\n","b","\"","=","=","#","c","\n",":","=">>,
      <<"m","u","t"," ","x"," ",":","="," ","1",";">>,
      <<"x","=","1","_","0","\"","a","\\","n","\"">>,
      <<"m","u","t"," ","x","=","1","_","0","\"","a","\\","n","\"">> }

ExampleDeclarations ==
    { <<"s","t","r","u","c","t"," ","P"," ","{"," ","x",":"," ","i","3","2",
        ","," ","y",":"," ","i","3","2"," ","}">>,
      <<"s","t","r","u","c","t"," ","E"," ","{","}">>,
      <<"s","t","r","u","c","t"," ","P"," ","{","x",":"," ","i","3","2",",","}">>,
      <<"f","n"," ","a","d","d","(","a",":"," ","i","3","2",","," ","b",":"," ",
        "i","3","2",")"," ","-",">"," ","i","3","2"," ","{">>,
      <<"f","n"," ","r","u","n","(",")"," ","{">>,
      <<"f","n"," ","f","(","a",":"," ","i","3","2",",",")">> }

\* Declarations are written as sequences of lexemes and joined into a text.
KwStruct == <<"s","t","r","u","c","t">>
KwFn == <<"f","n">>

\* The type written after a field name.
TypeOf(name) == IF name = <<"x">> THEN <<"i">> ELSE <<"j","8">>

RECURSIVE Entries(_)
Entries(names) ==
    IF names = << >> THEN << >>
    ELSE <<Head(names), <<":">>, TypeOf(Head(names))>>
         \o (IF Tail(names) = << >> THEN << >> ELSE << <<",">> >>)
         \o Entries(Tail(names))

StructLexemes(name, names, trailing) ==
    <<KwStruct, name, <<"{">> >> \o Entries(names)
        \o (IF trailing THEN << <<",">> >> ELSE << >>) \o << <<"}">> >>

FnLexemes(name, names, trailing, arrow) ==
    <<KwFn, name, <<"(">> >> \o Entries(names)
        \o (IF trailing THEN << <<",">> >> ELSE << >>) \o << <<")">> >>
        \o (IF arrow THEN << <<"-",">">>, <<"i">> >> ELSE << >>) \o << <<"{">> >>

\* A space separates two lexemes that would otherwise read as one.
RECURSIVE Join(_)
Join(lexemes) ==
    IF lexemes = << >> THEN << >>
    ELSE IF Len(lexemes) = 1 THEN lexemes[1]
    ELSE LET a == lexemes[1]
             b == lexemes[2]
             glue == IF a # << >> /\ b # << >>
                        /\ is_xid_continue(a[Len(a)]) /\ is_xid_continue(b[1])
                     THEN <<" ">> ELSE << >>
         IN  a \o glue \o Join(Tail(lexemes))

FieldNames == {<<"x">>, <<"y">>}

BaseDeclarations ==
    {StructLexemes(<<"P">>, ns, tr) :
        ns \in Texts(FieldNames, MaxFields), tr \in BOOLEAN}
    \cup
    {FnLexemes(<<"f">>, ns, tr, ar) :
        ns \in Texts(FieldNames, MaxFields), tr \in BOOLEAN, ar \in BOOLEAN}

\* Lexemes put in the place of another one to make a declaration ill-formed.
WrongLexemes == {<<"x">>, <<"1">>, <<":">>, <<",">>, <<"}">>, <<")">>}

\* A declaration, each of its proper prefixes, and each replacement of one
\* lexeme by a wrong one.
Variants(d) ==
    {d} \cup {SubSeq(d, 1, k) : k \in 0..(Len(d) - 1)}
        \cup {[d EXCEPT ![i] = w] : i \in 1..Len(d), w \in WrongLexemes}

DeclarationTexts == {Join(v) : v \in UNION {Variants(d) : d \in BaseDeclarations}}

\* Programs of several declarations.
SimpleDeclarations ==
    { StructLexemes(<<"E">>, << >>, FALSE),
      StructLexemes(<<"P">>, << <<"x">> >>, FALSE),
      StructLexemes(<<"Q">>, << <<"y">>, <<"x">> >>, FALSE),
      FnLexemes(<<"f">>, << >>, FALSE, FALSE) }

RECURSIVE Flatten(_)
Flatten(ds) == IF ds = << >> THEN << >> ELSE Head(ds) \o Flatten(Tail(ds))

ProgramTexts == {Join(Flatten(ds)) : ds \in Texts(SimpleDeclarations, MaxDecls)}

Inputs ==
    Texts(OperatorAlphabet, MaxLen) \cup Texts(IntegerAlphabet, MaxLen)
        \cup Texts(StringAlphabet, MaxLen) \cup Texts(CommentAlphabet, MaxLen)
        \cup Texts(FullAlphabet, MaxShort)
        \cup ExampleTexts \cup ExampleDeclarations
        \cup DeclarationTexts \cup ProgramTexts

(***************************************************************************)
(* The state: the text, the locals of tokenize_text and its return value.  *)
(***************************************************************************)
VARIABLES contents, chars, tokens, identifiers, integer_literals,
          string_literals, tokenize_ret

tokenizer_vars ==
    <<contents, chars, tokens, identifiers, integer_literals,
      string_literals, tokenize_ret>>

TokenizerInit ==
    /\ contents \in Inputs
    /\ chars = ScannerNew(contents)
    /\ tokens = << >>
    /\ identifiers = EmptyMap
    /\ string_literals = EmptyMap
    /\ integer_literals = EmptyMap
    /\ tokenize_ret = Running

\* The loop of tokenize_text is at a code point that selects the arm b.
AtBranch(b) ==
    /\ tokenize_ret.tag = "Running"
    /\ current_char(chars) # None
    /\ Branch(current_char(chars)[1]) = b

\* tokens.push(Token::new(token_kind, location)), location being that of
\* the scanner when the iteration began.
PushToken(token_kind) ==
    tokens' = Append(tokens, Token(token_kind, current_location(chars)))

\* The whitespace arm without chars.advance() (a plausible slip; used to
\* test C21).
SkipWhitespaceStays ==
    /\ AtBranch("whitespace")
    /\ UNCHANGED <<contents, chars, tokens, identifiers, integer_literals,
                   string_literals, tokenize_ret>>

SkipWhitespace ==
    /\ AtBranch("whitespace")
    /\ chars' = advance(chars)
    /\ UNCHANGED <<contents, tokens, identifiers, integer_literals,
                   string_literals, tokenize_ret>>

SkipComment ==
    /\ AtBranch("comment")
    /\ chars' = SkipCommentLoop(chars)
    /\ UNCHANGED <<contents, tokens, identifiers, integer_literals,
                   string_literals, tokenize_ret>>

\* The identifier arm recording the text before the keyword test, so that
\* keywords get an entry as well (a plausible slip; used to test C13).
TokenizeIdentifierRecordsKeywords ==
    /\ AtBranch("identifier")
    /\ LET r == tokenize_identifier_or_keyword(chars)
           k == KeywordKind(r.ret)
       IN  /\ chars' = r.chars
           /\ identifiers' =
                  MapInsert(identifiers, current_location(chars), r.ret)
           /\ IF k # None
              THEN PushToken(k[1])
              ELSE PushToken("Identifier")
    /\ UNCHANGED <<contents, integer_literals, string_literals, tokenize_ret>>

TokenizeIdentifier ==
    /\ AtBranch("identifier")
    /\ LET r == tokenize_identifier_or_keyword(chars)
           k == KeywordKind(r.ret)
       IN  /\ chars' = r.chars
           /\ IF k # None
              THEN /\ PushToken(k[1])
                   /\ UNCHANGED identifiers
              ELSE /\ identifiers' =
                         MapInsert(identifiers, current_location(chars), r.ret)
                   /\ PushToken("Identifier")
    /\ UNCHANGED <<contents, integer_literals, string_literals, tokenize_ret>>

TokenizeInteger ==
    /\ AtBranch("integer")
    /\ LET r == tokenize_integer(chars)
       IN  /\ chars' = r.chars
           /\ IF r.ret.tag = "Ok"
              THEN /\ integer_literals' =
                         MapInsert(integer_literals, current_location(chars),
                                   r.ret.value)
                   /\ PushToken("IntegerLiteral")
                   /\ UNCHANGED tokenize_ret
              ELSE /\ tokenize_ret' = r.ret
                   /\ UNCHANGED <<tokens, integer_literals>>
    /\ UNCHANGED <<contents, identifiers, string_literals>>

TokenizeString ==
    /\ AtBranch("string")
    /\ LET r == tokenize_string(chars)
       IN  /\ chars' = r.chars
           /\ IF r.ret.tag = "Ok"
              THEN /\ string_literals' =
                         MapInsert(string_literals, current_location(chars),
                                   r.ret.value)
                   /\ PushToken("StringLiteral")
                   /\ UNCHANGED tokenize_ret
              ELSE /\ tokenize_ret' = r.ret
                   /\ UNCHANGED <<tokens, string_literals>>
    /\ UNCHANGED <<contents, identifiers, integer_literals>>

TokenizeOther ==
    /\ AtBranch("other")
    /\ LET r == tokenize_other_token(chars)
       IN  /\ chars' = r.chars
           /\ IF r.ret # None
              THEN /\ PushToken(r.ret[1])
                   /\ UNCHANGED tokenize_ret
              ELSE /\ tokenize_ret' =
                         Err(TokenizingError(current_location(chars),
                                             "UnknownToken"))
                   /\ UNCHANGED tokens
    /\ UNCHANGED <<contents, identifiers, integer_literals, string_literals>>

\* End of input: tokenize_text returns the stream and the literal tables.
TokenizeReturn ==
    /\ tokenize_ret.tag = "Running"
    /\ current_char(chars) = None
    /\ tokenize_ret' =
           Ok([tokens |-> tokens,
               literal_data |->
                   LiteralData(identifiers, integer_literals, string_literals)])
    /\ UNCHANGED <<contents, chars, tokens, identifiers, integer_literals,
                   string_literals>>


(***************************************************************************)
(* The declaration parser.  token_iter is the Peekable iterator over the   *)
(* token stream: the tokens not yet consumed.  pc is the place of the      *)
(* parser in ast.rs; frame holds the locals of the declaration being       *)
(* parsed (of parse_function or parse_struct and of the                    *)
(* parse_value_type_list it calls).                                        *)
(***************************************************************************)
VARIABLES token_iter, functions, structs, pc, frame, parse_ret

parser_vars == <<token_iter, functions, structs, pc, frame, parse_ret>>

(***************************************************************************)
(* The construction of TOKEN_MAP, one entry of the list per step.  The     *)
(* program builds the table once, from OTHER_TOKENS in the order written;  *)
(* the construction is also run on other orders of the same list.          *)
(***************************************************************************)
VARIABLES other_tokens, built, token_map

table_vars == <<other_tokens, built, token_map>>

vars == <<tokenizer_vars, parser_vars, table_vars>>

Reverse(s) == [i \in 1..Len(s) |-> s[Len(s) + 1 - i]]

Rotate(s, n) == [i \in 1..Len(s) |-> s[((i + n - 1) % Len(s)) + 1]]

\* The orders of the list the construction is run on.
ListOrders ==
    {Rotate(OTHER_TOKENS, n) : n \in 0..(Len(OTHER_TOKENS) - 1)}
      \cup {Rotate(Reverse(OTHER_TOKENS), n) : n \in 0..(Len(OTHER_TOKENS) - 1)}

\* The table as tokenize_text finds it: built from the list as written.
TableBuilt ==
    /\ other_tokens = OTHER_TOKENS
    /\ built = Len(OTHER_TOKENS)
    /\ token_map = TOKEN_MAP

\* let mut token_map = HashMap::new(), before the first entry.
TableInit ==
    /\ other_tokens \in ListOrders
    /\ built = 0
    /\ token_map = EmptyMap

\* One iteration of for (token_chars, token) in OTHER_TOKENS.
InsertNextEntry ==
    /\ built < Len(other_tokens)
    /\ token_map' = InsertEntry(token_map, other_tokens[built + 1])
    /\ built' = built + 1
    /\ UNCHANGED other_tokens

NoFrame ==
    [decl |-> "none", name |-> << >>, end_token |-> "none", list |-> << >>,
     value_name |-> << >>, return_type |-> None]

ParserInit ==
    /\ token_iter = << >>
    /\ functions = << >>
    /\ structs = << >>
    /\ pc = "idle"
    /\ frame = NoFrame
    /\ parse_ret = Running

\* Iterator::next and what it leaves; Peekable::peek is IterNext alone.
IterNext(it) == IF it = << >> THEN None ELSE Some(Head(it))
IterRest(it) == IF it = << >> THEN << >> ELSE Tail(it)

ParseError(token, expected) == [token |-> token, expected |-> expected]

err_expected(token, expected) == Err(ParseError(token, expected))

expect_token(it, kind) ==
    LET next_token == IterNext(it)
    IN  [tokens |-> IterRest(it),
         ret    |-> IF next_token # None /\ next_token[1].token_kind = kind
                    THEN Ok(next_token[1])
                    ELSE err_expected(next_token, <<kind>>)]

expect_identifier(it, literal_data) ==
    LET token == IterNext(it)
        name  == IF token = None THEN None
                 ELSE try_get_identifier(literal_data, token[1])
    IN  [tokens |-> IterRest(it),
         ret    |-> IF name # None THEN Ok(name[1])
                    ELSE err_expected(token, <<"Identifier">>)]

\* The body grammar is not written: todo!() panics.
parse_code_block(it, literal_data) == Panic

Structure(name, fields) == [name |-> name, fields |-> fields]

Function(name, arguments, return_type, body) ==
    [name |-> name, arguments |-> arguments, return_type |-> return_type,
     body |-> body]

Program(fns, sts) == [functions |-> fns, structs |-> sts]

\* The literal tables that from_tokens was called with.
literal_data == tokenize_ret.value.literal_data

\* from_tokens returns r (an error through `?`, the program, or a panic).
Return(r) ==
    /\ parse_ret' = r
    /\ pc' = "returned"
    /\ frame' = NoFrame
    /\ UNCHANGED <<functions, structs>>

\* The call of from_tokens on what tokenize_text returned.
FromTokens ==
    /\ tokenize_ret.tag = "Ok"
    /\ pc = "idle"
    /\ token_iter' = tokenize_ret.value.tokens
    /\ functions' = << >>
    /\ structs' = << >>
    /\ pc' = "from_tokens"
    /\ UNCHANGED <<frame, parse_ret, tokenizer_vars>>

\* One turn of the loop of from_tokens, up to the call it dispatches to.
NextDeclaration ==
    /\ pc = "from_tokens"
    /\ LET token == IterNext(token_iter)
       IN  /\ token_iter' = IterRest(token_iter)
           /\ IF token = None
              THEN Return(Ok(Program(functions, structs)))
              ELSE IF token[1].token_kind = "FunctionDefinition"
              THEN /\ pc' = "parse_function"
                   /\ frame' = [NoFrame EXCEPT !.decl = "function"]
                   /\ UNCHANGED <<functions, structs, parse_ret>>
              ELSE IF token[1].token_kind = "Struct"
              THEN /\ pc' = "parse_struct"
                   /\ frame' = [NoFrame EXCEPT !.decl = "struct"]
                   /\ UNCHANGED <<functions, structs, parse_ret>>
              ELSE Return(err_expected(token, <<"FunctionDefinition", "Struct">>))
    /\ UNCHANGED tokenizer_vars

\* expect_identifier for the name of the declaration.
ParseName(at, then) ==
    /\ pc = at
    /\ LET r == expect_identifier(token_iter, literal_data)
       IN  /\ token_iter' = r.tokens
           /\ IF r.ret.tag = "Ok"
              THEN /\ frame' = [frame EXCEPT !.name = r.ret.value]
                   /\ pc' = then
                   /\ UNCHANGED <<functions, structs, parse_ret>>
              ELSE Return(r.ret)
    /\ UNCHANGED tokenizer_vars

\* expect_token for the opening delimiter, then the call of
\* parse_value_type_list with the closing one.
ParseOpen(at, open, close) ==
    /\ pc = at
    /\ LET r == expect_token(token_iter, open)
       IN  /\ token_iter' = r.tokens
           /\ IF r.ret.tag = "Ok"
              THEN /\ frame' = [frame EXCEPT !.end_token = close, !.list = << >>]
                   /\ pc' = "list_start"
                   /\ UNCHANGED <<functions, structs, parse_ret>>
              ELSE Return(r.ret)
    /\ UNCHANGED tokenizer_vars

ParseFunctionName == ParseName("parse_function", "parse_function_open")

ParseFunctionOpen ==
    ParseOpen("parse_function_open", "OpenParentheses", "CloseParentheses")

ParseStructName == ParseName("parse_struct", "parse_struct_open")

ParseStructOpen == ParseOpen("parse_struct_open", "OpenBraces", "CloseBraces")

\* The return of the list with the Structure put in front of the structures
\* already parsed (a plausible slip; used to test C18).
ListReturnPrepends(list) ==
    IF frame.decl = "struct"
    THEN /\ structs' = <<Structure(frame.name, list)>> \o structs
         /\ pc' = "from_tokens"
         /\ frame' = NoFrame
         /\ UNCHANGED <<functions, parse_ret>>
    ELSE /\ pc' = "function_return"
         /\ frame' = [frame EXCEPT !.list = list]
         /\ UNCHANGED <<functions, structs, parse_ret>>

\* parse_value_type_list returns list: parse_struct returns the Structure,
\* which from_tokens pushes; parse_function goes on to the return type.
ListReturn(list) ==
    IF frame.decl = "struct"
    THEN /\ structs' = Append(structs, Structure(frame.name, list))
         /\ pc' = "from_tokens"
         /\ frame' = NoFrame
         /\ UNCHANGED <<functions, parse_ret>>
    ELSE /\ pc' = "function_return"
         /\ frame' = [frame EXCEPT !.list = list]
         /\ UNCHANGED <<functions, structs, parse_ret>>

\* The peek returning the empty list without consuming the end token (a
\* plausible slip; used to test C11).
ListStartKeepsEndToken ==
    /\ pc = "list_start"
    /\ LET peeked == IterNext(token_iter)
       IN  IF peeked # None /\ peeked[1].token_kind = "Identifier"
           THEN /\ pc' = "list_name"
                /\ UNCHANGED <<token_iter, functions, structs, frame, parse_ret>>
           ELSE IF peeked # None /\ peeked[1].token_kind = frame.end_token
           THEN /\ UNCHANGED token_iter
                /\ ListReturn(<< >>)
           ELSE /\ token_iter' = IterRest(token_iter)
                /\ Return(err_expected(peeked, <<"Identifier", frame.end_token>>))
    /\ UNCHANGED tokenizer_vars

\* The peek reporting the offending token without consuming it (a plausible
\* slip; used to test C19).
ListStartErrorKeepsToken ==
    /\ pc = "list_start"
    /\ LET peeked == IterNext(token_iter)
       IN  IF peeked # None /\ peeked[1].token_kind = "Identifier"
           THEN /\ pc' = "list_name"
                /\ UNCHANGED <<token_iter, functions, structs, frame, parse_ret>>
           ELSE IF peeked # None /\ peeked[1].token_kind = frame.end_token
           THEN /\ token_iter' = IterRest(token_iter)
                /\ ListReturn(<< >>)
           ELSE /\ UNCHANGED token_iter
                /\ Return(err_expected(peeked, <<"Identifier", frame.end_token>>))
    /\ UNCHANGED tokenizer_vars

\* The peek that opens parse_value_type_list.
ListStart ==
    /\ pc = "list_start"
    /\ LET peeked == IterNext(token_iter)
       IN  IF peeked # None /\ peeked[1].token_kind = "Identifier"
           THEN /\ pc' = "list_name"
                /\ UNCHANGED <<token_iter, functions, structs, frame, parse_ret>>
           ELSE IF peeked # None /\ peeked[1].token_kind = frame.end_token
           THEN /\ token_iter' = IterRest(token_iter)
                /\ ListReturn(<< >>)
           ELSE /\ token_iter' = IterRest(token_iter)
                /\ Return(err_expected(peeked, <<"Identifier", frame.end_token>>))
    /\ UNCHANGED tokenizer_vars

ListName ==
    /\ pc = "list_name"
    /\ LET r == expect_identifier(token_iter, literal_data)
       IN  /\ token_iter' = r.tokens
           /\ IF r.ret.tag = "Ok"
              THEN /\ frame' = [frame EXCEPT !.value_name = r.ret.value]
                   /\ pc' = "list_separator"
                   /\ UNCHANGED <<functions, structs, parse_ret>>
              ELSE Return(r.ret)
    /\ UNCHANGED tokenizer_vars

ListSeparator ==
    /\ pc = "list_separator"
    /\ LET r == expect_token(token_iter, "FieldTypeSeparator")
       IN  /\ token_iter' = r.tokens
           /\ IF r.ret.tag = "Ok"
              THEN /\ pc' = "list_type"
                   /\ UNCHANGED <<functions, structs, frame, parse_ret>>
              ELSE Return(r.ret)
    /\ UNCHANGED tokenizer_vars

\* The push with the pair the wrong way round (a plausible slip; used to
\* test C7).
PushEntrySwapped(list, value_name, value_type) ==
    Append(list, <<value_type, value_name>>)

\* The type name, and the push of (value_name, value_type).
PushEntry(list, value_name, value_type) == Append(list, <<value_name, value_type>>)

ListType ==
    /\ pc = "list_type"
    /\ LET r == expect_identifier(token_iter, literal_data)
       IN  /\ token_iter' = r.tokens
           /\ IF r.ret.tag = "Ok"
              THEN /\ frame' =
                         [frame EXCEPT
                            !.list = PushEntry(frame.list, frame.value_name,
                                               r.ret.value),
                            !.value_name = << >>]
                   /\ pc' = "list_next"
                   /\ UNCHANGED <<functions, structs, parse_ret>>
              ELSE Return(r.ret)
    /\ UNCHANGED tokenizer_vars

\* The end of an entry accepting a comma right before the end token (a
\* plausible slip; used to test C10).
ListNextAllowsTrailingComma ==
    /\ pc = "list_next"
    /\ LET next_token == IterNext(token_iter)
           after      == IterNext(IterRest(token_iter))
       IN  IF /\ next_token # None /\ next_token[1].token_kind = "Comma"
              /\ after # None /\ after[1].token_kind = frame.end_token
           THEN /\ token_iter' = IterRest(IterRest(token_iter))
                /\ ListReturn(frame.list)
           ELSE /\ token_iter' = IterRest(token_iter)
                /\ IF next_token # None /\ next_token[1].token_kind = "Comma"
                   THEN /\ pc' = "list_name"
                        /\ UNCHANGED <<functions, structs, frame, parse_ret>>
                   ELSE IF next_token # None
                           /\ next_token[1].token_kind = frame.end_token
                   THEN ListReturn(frame.list)
                   ELSE Return(err_expected(next_token,
                                            <<"Comma", frame.end_token>>))
    /\ UNCHANGED tokenizer_vars

\* After an entry: a comma continues the loop, the end token leaves it.
ListNext ==
    /\ pc = "list_next"
    /\ LET next_token == IterNext(token_iter)
       IN  /\ token_iter' = IterRest(token_iter)
           /\ IF next_token # None /\ next_token[1].token_kind = "Comma"
              THEN /\ pc' = "list_name"
                   /\ UNCHANGED <<functions, structs, frame, parse_ret>>
              ELSE IF next_token # None
                      /\ next_token[1].token_kind = frame.end_token
              THEN ListReturn(frame.list)
              ELSE Return(err_expected(next_token, <<"Comma", frame.end_token>>))
    /\ UNCHANGED tokenizer_vars

\* parse_function after the argument list: `{`, or `->` and a type name.
FunctionReturn ==
    /\ pc = "function_return"
    /\ LET next_token == IterNext(token_iter)
       IN  /\ token_iter' = IterRest(token_iter)
           /\ IF next_token # None /\ next_token[1].token_kind = "OpenBraces"
              THEN /\ pc' = "parse_code_block"
                   /\ frame' = [frame EXCEPT !.return_type = None]
                   /\ UNCHANGED <<functions, structs, parse_ret>>
              ELSE IF next_token # None
                      /\ next_token[1].token_kind = "RightArrow"
              THEN /\ pc' = "function_return_type"
                   /\ UNCHANGED <<functions, structs, frame, parse_ret>>
              ELSE Return(err_expected(next_token, <<"RightArrow", "OpenBraces">>))
    /\ UNCHANGED tokenizer_vars

FunctionReturnType ==
    /\ pc = "function_return_type"
    /\ LET r == expect_identifier(token_iter, literal_data)
       IN  /\ token_iter' = r.tokens
           /\ IF r.ret.tag = "Ok"
              THEN /\ frame' = [frame EXCEPT !.return_type = Some(r.ret.value)]
                   /\ pc' = "function_return_brace"
                   /\ UNCHANGED <<functions, structs, parse_ret>>
              ELSE Return(r.ret)
    /\ UNCHANGED tokenizer_vars

FunctionReturnBrace ==
    /\ pc = "function_return_brace"
    /\ LET r == expect_token(token_iter, "OpenBraces")
       IN  /\ token_iter' = r.tokens
           /\ IF r.ret.tag = "Ok"
              THEN /\ pc' = "parse_code_block"
                   /\ UNCHANGED <<functions, structs, frame, parse_ret>>
              ELSE Return(r.ret)
    /\ UNCHANGED tokenizer_vars

\* The body, then the Function that parse_function returns and that
\* from_tokens pushes.
ParseCodeBlock ==
    /\ pc = "parse_code_block"
    /\ LET body == parse_code_block(token_iter, literal_data)
       IN  IF body.tag = "Ok"
           THEN /\ functions' =
                      Append(functions,
                             Function(frame.name, frame.list, frame.return_type,
                                      body.value))
                /\ pc' = "from_tokens"
                /\ frame' = NoFrame
                /\ UNCHANGED <<structs, parse_ret>>
           ELSE Return(body)
    /\ UNCHANGED <<token_iter, tokenizer_vars>>

Init == TokenizerInit /\ ParserInit /\ TableBuilt

Next ==
    \/ SkipWhitespace /\ UNCHANGED <<parser_vars, table_vars>>
    \/ SkipComment /\ UNCHANGED <<parser_vars, table_vars>>
    \/ TokenizeIdentifier /\ UNCHANGED <<parser_vars, table_vars>>
    \/ TokenizeInteger /\ UNCHANGED <<parser_vars, table_vars>>
    \/ TokenizeString /\ UNCHANGED <<parser_vars, table_vars>>
    \/ TokenizeOther /\ UNCHANGED <<parser_vars, table_vars>>
    \/ TokenizeReturn /\ UNCHANGED <<parser_vars, table_vars>>
    \/ FromTokens /\ UNCHANGED table_vars
    \/ NextDeclaration /\ UNCHANGED table_vars
    \/ ParseFunctionName /\ UNCHANGED table_vars
    \/ ParseFunctionOpen /\ UNCHANGED table_vars
    \/ ParseStructName /\ UNCHANGED table_vars
    \/ ParseStructOpen /\ UNCHANGED table_vars
    \/ ListStart /\ UNCHANGED table_vars
    \/ ListName /\ UNCHANGED table_vars
    \/ ListSeparator /\ UNCHANGED table_vars
    \/ ListType /\ UNCHANGED table_vars
    \/ ListNext /\ UNCHANGED table_vars
    \/ FunctionReturn /\ UNCHANGED table_vars
    \/ FunctionReturnType /\ UNCHANGED table_vars
    \/ FunctionReturnBrace /\ UNCHANGED table_vars
    \/ ParseCodeBlock /\ UNCHANGED table_vars

Spec == Init /\ [][Next]_vars

\* The texts the calls are run on to their end: every text of up to
\* MaxShort code points, the examples and the programs.
TerminationInputs ==
    Texts(FullAlphabet, MaxShort) \cup ExampleTexts \cup ExampleDeclarations
        \cup ProgramTexts

FairInit ==
    /\ contents \in TerminationInputs
    /\ chars = ScannerNew(contents)
    /\ tokens = << >>
    /\ identifiers = EmptyMap
    /\ string_literals = EmptyMap
    /\ integer_literals = EmptyMap
    /\ tokenize_ret = Running
    /\ ParserInit
    /\ TableBuilt

\* The program is sequential and nothing suspends it: a call that can take
\* a step takes it.
FairSpec == FairInit /\ [][Next]_vars /\ WF_vars(Next)

\* The construction of the table alone, before any text is tokenized.
TableSpecInit ==
    /\ TableInit
    /\ contents = << >>
    /\ chars = ScannerNew(contents)
    /\ tokens = << >>
    /\ identifiers = EmptyMap
    /\ string_literals = EmptyMap
    /\ integer_literals = EmptyMap
    /\ tokenize_ret = Running
    /\ ParserInit

TableNext == InsertNextEntry /\ UNCHANGED <<tokenizer_vars, parser_vars>>

TableSpec == TableSpecInit /\ [][TableNext]_vars

(***************************************************************************)
(* What the properties are stated with: positions in the text, and the     *)
(* lexical rules written on the text itself.                               *)
(***************************************************************************)

\* The code points the scanner has not passed: the current one and the rest.
Remaining(sc) == sc.cur_char \o sc.chars

\* The index in contents of the scanner's current code point
\* (Len(contents) + 1 at end of input).
Pos(sc) == Len(contents) - Len(Remaining(sc)) + 1

Max(S) == CHOOSE x \in S : \A y \in S : y <= x
Min(S) == CHOOSE x \in S : \A y \in S : x <= y

\* The location of the i-th code point of a text: lines and columns counted
\* on the text.
RefLocation(text, i) ==
    LET newlines == {j \in 1..(i - 1) : text[j] = "\n"}
        last     == IF newlines = {} THEN 0 ELSE Max(newlines)
    IN  Location(1 + Cardinality(newlines), i - last)

IsPrefix(p, s) == Len(p) <= Len(s) /\ SubSeq(s, 1, Len(p)) = p

\* The entries of the operator list that spell a prefix of s.
SpellingsAt(s) == {i \in 1..Len(OTHER_TOKENS) : IsPrefix(OTHER_TOKENS[i].chars, s)}

LongestSpellingAt(s) ==
    CHOOSE i \in SpellingsAt(s) :
        \A j \in SpellingsAt(s) :
            Len(OTHER_TOKENS[j].chars) <= Len(OTHER_TOKENS[i].chars)

Kinds(toks) == [k \in 1..Len(toks) |-> toks[k].token_kind]

Last(s) == s[Len(s)]

\* C1: maximal munch.  Whenever tokenize_text dispatches to the operator
\* matcher and some spelling of the operator list is a prefix of the
\* remaining input, the token pushed is the one of the longest such
\* spelling; and the text =:=:= yields the kinds Assign, DefineVar,
\* DefineVar.
C1_MaximalMunch ==
    /\ [][(AtBranch("other") /\ SpellingsAt(Remaining(chars)) # {})
            => tokens' =
                 Append(tokens,
                        Token(OTHER_TOKENS[LongestSpellingAt(Remaining(chars))].kind,
                              current_location(chars)))]_vars
    /\ []((contents = <<"=",":","=",":","=">> /\ tokenize_ret.tag # "Running")
            => /\ tokenize_ret.tag = "Ok"
               /\ Kinds(tokenize_ret.value.tokens)
                    = <<"Assign", "DefineVar", "DefineVar">>)

C1_Witness ==
    /\ contents = <<"=",":","=",":","=">>
    /\ tokenize_ret.tag = "Ok"
    /\ Len(tokens) = 3
    /\ tokens[3].token_kind = "DefineVar"

\* C2: every token pushed carries the location of its first code point,
\* the code point the scanner was at when the token began: line = 1 + the
\* newlines before it, column = 1 + the code points since the last newline.
\* The text =\n= yields Assign at {1,1} and Assign at {2,1}.
C2_TokenLocation ==
    /\ [][tokens' # tokens
            => /\ Len(tokens') = Len(tokens) + 1
               /\ Last(tokens').location = RefLocation(contents, Pos(chars))
               /\ Pos(chars) <= Len(contents)]_vars
    /\ []((contents = <<"=","\n","=">> /\ tokenize_ret.tag # "Running")
            => /\ tokenize_ret.tag = "Ok"
               /\ tokenize_ret.value.tokens
                    = <<Token("Assign", Location(1, 1)),
                        Token("Assign", Location(2, 1))>>)

\* A token after a two-line string literal, after a rollback (== before #)
\* and after a comment.
C2_Witness ==
    /\ contents = <<"\"","a","\n","b","\"","=","=","#","c","\n",":","=">>
    /\ tokenize_ret.tag = "Ok"
    /\ tokens = <<Token("StringLiteral", Location(1, 1)),
                  Token("Equal", Location(2, 3)),
                  Token("DefineVar", Location(3, 1))>>

\* The first index from i on whose code point does not satisfy P
\* (Len(text) + 1 when there is none).
RunEnd(text, i, P(_)) ==
    CHOOSE j \in i..(Len(text) + 1) :
        /\ j = Len(text) + 1 \/ ~P(text[j])
        /\ \A k \in i..(j - 1) : P(text[k])

IsDigit(c) == c \in AsciiDigit
IsDigitOrSeparator(c) == c \in AsciiDigit \/ c = "_"
IsAsciiLetter(c) == c \in AsciiUpper \cup AsciiLower

\* The identifier that begins at index i of contents.
IdentifierText(i) == SubSeq(contents, i, RunEnd(contents, i, is_xid_continue) - 1)

\* The integer literal that begins at index i, its separators removed.
IntegerText(i) ==
    SelectSeq(SubSeq(contents, i, RunEnd(contents, i, IsDigitOrSeparator) - 1),
              IsDigit)

\* What an escape specifier stands for.
Escapes == ("\"" :> "\"") @@ ("\\" :> "\\") @@ ("n" :> "\n")
               @@ ("r" :> "\r") @@ ("t" :> "\t")

\* How the string literal whose contents begin at index i ends: closed by
\* the quote at index at, unterminated, or broken by the escape specifier
\* at index at.
RECURSIVE StringEnd(_, _)
StringEnd(text, i) ==
    IF i > Len(text) THEN [kind |-> "unterminated", at |-> i]
    ELSE IF text[i] = "\"" THEN [kind |-> "closed", at |-> i]
    ELSE IF text[i] = "\\"
         THEN IF i + 1 <= Len(text) /\ text[i + 1] \in DOMAIN Escapes
              THEN StringEnd(text, i + 2)
              ELSE [kind |-> "escape", at |-> i + 1]
    ELSE StringEnd(text, i + 1)

\* The decoded contents of the string literal whose contents begin at i.
RECURSIVE StringText(_, _)
StringText(text, i) ==
    IF i > Len(text) \/ text[i] = "\"" THEN << >>
    ELSE IF text[i] = "\\"
         THEN IF i + 1 <= Len(text) /\ text[i + 1] \in DOMAIN Escapes
              THEN <<Escapes[text[i + 1]]>> \o StringText(text, i + 2)
              ELSE << >>
    ELSE <<text[i]>> \o StringText(text, i + 1)

\* C3: literal round trip.  After a successful tokenize_text every token of
\* kind Identifier, IntegerLiteral or StringLiteral is found by the lookup
\* of its kind, and the value is the text consumed for it: the identifier's
\* code points, the literal's digits without the separators, the string's
\* contents with the escapes decoded.  hello, world! maps its two
\* identifiers to hello and world.
C3_LiteralRoundTrip ==
    tokenize_ret.tag = "Ok" =>
        LET toks == tokenize_ret.value.tokens
            ld   == tokenize_ret.value.literal_data
        IN  /\ \A k \in 1..Len(toks) :
                 LET t == toks[k]
                 IN  t.token_kind \in {"Identifier", "IntegerLiteral", "StringLiteral"}
                       => \E i \in 1..Len(contents) :
                            /\ RefLocation(contents, i) = t.location
                            /\ t.token_kind = "Identifier" =>
                                 try_get_identifier(ld, t) = Some(IdentifierText(i))
                            /\ t.token_kind = "IntegerLiteral" =>
                                 try_get_integer_literal(ld, t) = Some(IntegerText(i))
                            /\ t.token_kind = "StringLiteral" =>
                                 try_get_string_literal(ld, t)
                                    = Some(StringText(contents, i + 1))
            /\ contents = <<"h","e","l","l","o",","," ","w","o","r","l","d","!">>
                 => /\ Kinds(toks) = <<"Identifier", "Comma", "Identifier", "Not">>
                    /\ try_get_identifier(ld, toks[1]) = Some(<<"h","e","l","l","o">>)
                    /\ try_get_identifier(ld, toks[3]) = Some(<<"w","o","r","l","d">>)

C3_Witness ==
    /\ contents = <<"x","=","1","_","0","\"","a","\\","n","\"">>
    /\ tokenize_ret.tag = "Ok"
    /\ Kinds(tokenize_ret.value.tokens)
         = <<"Identifier", "Assign", "IntegerLiteral", "StringLiteral">>
    /\ tokenize_ret.value.literal_data.integer_literals[Location(1, 3)] = <<"1","0">>
    /\ tokenize_ret.value.literal_data.string_literals[Location(1, 6)] = <<"a","\n">>

\* C4: when the digits and separators that begin an integer literal are
\* directly followed by an ASCII letter, tokenize_text fails with
\* InvalidSuffix at the location of that letter, and no token stream is
\* returned (the parser is never given one).  123abc fails at {1,4}.
C4_InvalidSuffix ==
    /\ [][(/\ AtBranch("integer")
           /\ LET j == RunEnd(contents, Pos(chars), IsDigitOrSeparator)
              IN  j <= Len(contents) /\ IsAsciiLetter(contents[j]))
            => /\ tokenize_ret' =
                    Err(TokenizingError(
                          RefLocation(contents,
                                      RunEnd(contents, Pos(chars), IsDigitOrSeparator)),
                          "InvalidSuffix"))
               /\ tokens' = tokens]_vars
    /\ [](tokenize_ret.tag = "Err" => pc = "idle" /\ ~ENABLED Next)
    /\ []((contents = <<"1","2","3","a","b","c">> /\ tokenize_ret.tag # "Running")
            => tokenize_ret = Err(TokenizingError(Location(1, 4), "InvalidSuffix")))

C4_Witness ==
    /\ contents = <<"1","2","3","a","b","c">>
    /\ tokenize_ret = Err(TokenizingError(Location(1, 4), "InvalidSuffix"))

\* C5: inside a string literal a backslash followed by a code point other
\* than " \ n r t makes tokenize_text fail with InvalidEscape at the
\* location of that code point; the five valid escapes decode to the quote,
\* the backslash, the newline, the carriage return and the tab, and none
\* ends the literal: a literal that closes ends at its first unescaped
\* quote.  "a\q" fails at the q.
C5_InvalidEscape ==
    /\ [][AtBranch("string") =>
            LET e == StringEnd(contents, Pos(chars) + 1)
            IN  /\ (e.kind = "escape" /\ e.at <= Len(contents))
                     => tokenize_ret' =
                          Err(TokenizingError(RefLocation(contents, e.at),
                                              "InvalidEscape"))
                /\ e.kind = "closed"
                     => /\ tokenize_ret' = tokenize_ret
                        /\ Pos(chars') = e.at + 1
                        /\ MapGet(string_literals', current_location(chars))
                             = Some(StringText(contents, Pos(chars) + 1))]_vars
    /\ []((contents = <<"\"","a","\\","q","\"">> /\ tokenize_ret.tag # "Running")
            => tokenize_ret = Err(TokenizingError(Location(1, 4), "InvalidEscape")))
    /\ []((contents = <<"\"","\\","r","\\","t","\\","n","\\","\\","\\","\"","\"","=">>
             /\ tokenize_ret.tag # "Running")
            => /\ tokenize_ret.tag = "Ok"
               /\ tokenize_ret.value.tokens
                    = <<Token("StringLiteral", Location(1, 1)),
                        Token("Assign", Location(1, 13))>>
               /\ tokenize_ret.value.literal_data.string_literals[Location(1, 1)]
                    = <<"\r", "\t", "\n", "\\", "\"">>)

C5_Witness ==
    /\ contents = <<"\"","a","\\","q","\"">>
    /\ tokenize_ret = Err(TokenizingError(Location(1, 4), "InvalidEscape"))

\* A text of whitespace and # comments only; a comment runs through the
\* next newline, or to the end of the text.
RECURSIVE IsBlank(_)
IsBlank(text) ==
    IF text = << >> THEN TRUE
    ELSE IF is_whitespace(Head(text)) THEN IsBlank(Tail(text))
    ELSE IF Head(text) = "#"
         THEN LET ends == {j \in 1..Len(text) : text[j] = "\n"}
              IN  ends = {} \/ IsBlank(SubSeq(text, Min(ends) + 1, Len(text)))
    ELSE FALSE

\* C6: for a text of whitespace and # comments only, tokenize_text pushes
\* no token, never fails, goes on until it returns, and returns an empty
\* token stream and three empty literal tables.
C6_BlankText ==
    IsBlank(contents) =>
        /\ tokens = << >>
        /\ tokenize_ret.tag \in {"Running", "Ok"}
        /\ tokenize_ret.tag = "Running" => ENABLED Next
        /\ tokenize_ret.tag = "Ok" =>
             tokenize_ret.value =
                [tokens |-> << >>,
                 literal_data |-> LiteralData(EmptyMap, EmptyMap, EmptyMap)]

\* A comment closed by a newline, then a comment that runs to the end.
C6_Witness ==
    /\ contents = <<"#", "\n", "#", "a">>
    /\ tokenize_ret.tag = "Ok"
    /\ tokenize_ret.value.tokens = << >>

(***************************************************************************)
(* The shapes of token streams, written on the stream that tokenize_text   *)
(* returned.                                                               *)
(***************************************************************************)
ReturnedTokens == tokenize_ret.value.tokens

KindAt(toks, i) == IF i \in 1..Len(toks) THEN toks[i].token_kind ELSE "none"

\* The name the identifier table holds for the i-th token.
NameAt(toks, i) == tokenize_ret.value.literal_data.identifiers[toks[i].location]

\* k entries `name : type` separated by commas, the first at index from.
EntriesAt(toks, from, k) ==
    \A j \in 0..(k - 1) :
        /\ KindAt(toks, from + 4 * j) = "Identifier"
        /\ KindAt(toks, from + 4 * j + 1) = "FieldTypeSeparator"
        /\ KindAt(toks, from + 4 * j + 2) = "Identifier"
        /\ j < k - 1 => KindAt(toks, from + 4 * j + 3) = "Comma"

\* The pairs (name, type) of k entries, the first at index from.
EntryList(toks, from, k) ==
    [j \in 1..k |-> <<NameAt(toks, from + 4 * (j - 1)),
                     NameAt(toks, from + 4 * (j - 1) + 2)>>]

\* struct NAME { n1 : t1 , ... , nk : tk }  with k >= 1, and nothing else.
StructShape(toks, k) ==
    /\ k >= 1
    /\ Len(toks) = 4 * k + 3
    /\ KindAt(toks, 1) = "Struct"
    /\ KindAt(toks, 2) = "Identifier"
    /\ KindAt(toks, 3) = "OpenBraces"
    /\ EntriesAt(toks, 4, k)
    /\ KindAt(toks, 4 * k + 3) = "CloseBraces"

\* The index of the token after the argument list of k entries.
AfterArguments(k) == IF k = 0 THEN 5 ELSE 4 * k + 4

\* fn NAME ( a1 : t1 , ... , ak : tk ) {    or, with arrow,
\* fn NAME ( a1 : t1 , ... , ak : tk ) -> T {    and nothing else.
FunctionShape(toks, k, arrow) ==
    /\ KindAt(toks, 1) = "FunctionDefinition"
    /\ KindAt(toks, 2) = "Identifier"
    /\ KindAt(toks, 3) = "OpenParentheses"
    /\ EntriesAt(toks, 4, k)
    /\ KindAt(toks, AfterArguments(k) - 1) = "CloseParentheses"
    /\ IF arrow
       THEN /\ KindAt(toks, AfterArguments(k)) = "RightArrow"
            /\ KindAt(toks, AfterArguments(k) + 1) = "Identifier"
            /\ KindAt(toks, AfterArguments(k) + 2) = "OpenBraces"
            /\ Len(toks) = AfterArguments(k) + 2
       ELSE /\ KindAt(toks, AfterArguments(k)) = "OpenBraces"
            /\ Len(toks) = AfterArguments(k)

\* A declaration head, k >= 1 entries, a comma and the terminator of the
\* list at index 4k + 4; whatever follows.
TrailingCommaShape(toks, k) ==
    /\ k >= 1
    /\ \/ /\ KindAt(toks, 1) = "Struct"
          /\ KindAt(toks, 3) = "OpenBraces"
          /\ KindAt(toks, 4 * k + 4) = "CloseBraces"
       \/ /\ KindAt(toks, 1) = "FunctionDefinition"
          /\ KindAt(toks, 3) = "OpenParentheses"
          /\ KindAt(toks, 4 * k + 4) = "CloseParentheses"
    /\ KindAt(toks, 2) = "Identifier"
    /\ EntriesAt(toks, 4, k)
    /\ KindAt(toks, 4 * k + 3) = "Comma"

I32 == <<"i","3","2">>

\* C7: for a token stream struct NAME { n1 : t1 , ... , nk : tk } with
\* k >= 1, from_tokens goes on until it returns, and it returns Ok with no
\* function and one Structure whose name is NAME and whose fields are
\* (n1,t1) ... (nk,tk) in source order, duplicates kept.
\* struct P { x: i32, y: i32 } yields P with the fields (x,i32), (y,i32).
C7_ParseStruct ==
    tokenize_ret.tag = "Ok" =>
        /\ \A k \in 1..Len(ReturnedTokens) :
             StructShape(ReturnedTokens, k) =>
                /\ pc # "returned" => ENABLED Next
                /\ pc = "returned" =>
                     parse_ret =
                        Ok(Program(<< >>,
                                   <<Structure(NameAt(ReturnedTokens, 2),
                                               EntryList(ReturnedTokens, 4, k))>>))
        /\ (/\ contents = <<"s","t","r","u","c","t"," ","P"," ","{"," ","x",":",
                            " ","i","3","2",","," ","y",":"," ","i","3","2"," ","}">>
            /\ pc = "returned")
             => parse_ret =
                  Ok(Program(<< >>,
                             <<Structure(<<"P">>,
                                         << << <<"x">>, I32 >>, << <<"y">>, I32 >> >>)>>))

\* A struct with a duplicate field name, parsed.
C7_Witness ==
    /\ contents = Join(StructLexemes(<<"P">>, << <<"x">>, <<"x">> >>, FALSE))
    /\ pc = "returned"
    /\ parse_ret =
         Ok(Program(<< >>,
                    <<Structure(<<"P">>,
                                << << <<"x">>, <<"i">> >>, << <<"x">>, <<"i">> >> >>)>>))

\* C8: for a token stream fn NAME ( a1 : t1 , ... , ak : tk ) -> T {
\* from_tokens yields a Function with name NAME, the arguments in order and
\* return_type Some(T); without the arrow, return_type None.
C8_ParseFunction ==
    (tokenize_ret.tag = "Ok" /\ pc = "returned") =>
        \A k \in 0..Len(ReturnedTokens) : \A arrow \in BOOLEAN :
            FunctionShape(ReturnedTokens, k, arrow) =>
                /\ parse_ret.tag = "Ok"
                /\ Len(parse_ret.value.functions) = 1
                /\ parse_ret.value.functions[1].name = NameAt(ReturnedTokens, 2)
                /\ parse_ret.value.functions[1].arguments
                     = EntryList(ReturnedTokens, 4, k)
                /\ parse_ret.value.functions[1].return_type
                     = IF arrow
                       THEN Some(NameAt(ReturnedTokens, AfterArguments(k) + 1))
                       ELSE None

\* C9: no panic in the core: neither tokenize_text nor from_tokens, called
\* on what tokenize_text returned, ends in a panic.
C9_NoPanic == tokenize_ret.tag # "Panic" /\ parse_ret.tag # "Panic"

\* C10: a value-type list of at least one entry with a comma right before
\* its terminator makes from_tokens fail with a ParseError whose expected
\* set is [Identifier] and whose token is the terminator; the terminator is
\* the last token consumed.  struct P {x: i32,} fails at the }, and
\* fn f(a: i32,) at the ).
C10_TrailingComma ==
    tokenize_ret.tag = "Ok" =>
        /\ \A k \in 1..Len(ReturnedTokens) :
             TrailingCommaShape(ReturnedTokens, k) =>
                /\ pc # "returned" => ENABLED Next
                /\ pc = "returned" =>
                     /\ parse_ret =
                          Err(ParseError(Some(ReturnedTokens[4 * k + 4]),
                                         <<"Identifier">>))
                     /\ token_iter
                          = SubSeq(ReturnedTokens, 4 * k + 5, Len(ReturnedTokens))
        /\ (/\ contents = <<"s","t","r","u","c","t"," ","P"," ","{","x",":"," ",
                            "i","3","2",",","}">>
            /\ pc = "returned")
             => parse_ret =
                  Err(ParseError(Some(Token("CloseBraces", Location(1, 18))),
                                 <<"Identifier">>))
        /\ (/\ contents = <<"f","n"," ","f","(","a",":"," ","i","3","2",",",")">>
            /\ pc = "returned")
             => parse_ret =
                  Err(ParseError(Some(Token("CloseParentheses", Location(1, 13))),
                                 <<"Identifier">>))

C10_Witness ==
    /\ contents = <<"f","n"," ","f","(","a",":"," ","i","3","2",",",")">>
    /\ pc = "returned"
    /\ parse_ret =
         Err(ParseError(Some(Token("CloseParentheses", Location(1, 13))),
                        <<"Identifier">>))
    /\ token_iter = << >>

\* C11: when the token right after the opening delimiter of a value-type
\* list is the end token, the list parser consumes exactly that token and
\* returns the empty list: parse_struct yields a Structure without fields
\* and from_tokens goes on with the token after it, parse_function goes on
\* to the return type with no argument.  struct E {} yields the Structure E
\* with fields [], also when another declaration follows.
C11_EmptyList ==
    /\ [][(/\ pc = "list_start"
           /\ token_iter # << >>
           /\ Head(token_iter).token_kind = frame.end_token)
            => /\ token_iter' = Tail(token_iter)
               /\ parse_ret' = parse_ret
               /\ frame.decl = "struct"
                    => /\ structs' = Append(structs, Structure(frame.name, << >>))
                       /\ functions' = functions
                       /\ pc' = "from_tokens"
               /\ frame.decl = "function"
                    => /\ frame'.list = << >>
                       /\ frame'.name = frame.name
                       /\ structs' = structs
                       /\ pc' = "function_return"]_vars
    /\ []((contents = <<"s","t","r","u","c","t"," ","E"," ","{","}">>
             /\ pc = "returned")
            => parse_ret = Ok(Program(<< >>, <<Structure(<<"E">>, << >>)>>)))
    /\ []((/\ contents = Join(StructLexemes(<<"E">>, << >>, FALSE)
                              \o StructLexemes(<<"P">>, << <<"x">> >>, FALSE))
           /\ pc = "returned")
            => parse_ret =
                 Ok(Program(<< >>,
                            <<Structure(<<"E">>, << >>),
                              Structure(<<"P">>, << << <<"x">>, <<"i">> >> >>)>>)))

\* The empty struct, then another declaration, both parsed.
C11_Witness ==
    /\ contents = Join(StructLexemes(<<"E">>, << >>, FALSE)
                       \o StructLexemes(<<"P">>, << <<"x">> >>, FALSE))
    /\ pc = "returned"
    /\ parse_ret.tag = "Ok"
    /\ parse_ret.value.structs[1] = Structure(<<"E">>, << >>)
    /\ Len(parse_ret.value.structs) = 2

\* The order of locations: by line, then by column.
LocationLess(a, b) ==
    a.line < b.line \/ (a.line = b.line /\ a.column < b.column)

\* C12: in the token stream, as it grows and as it is returned, no two
\* tokens share a location: the locations increase strictly along the
\* stream in (line, column) order.
C12_DistinctLocations ==
    /\ \A i \in 1..Len(tokens) : \A j \in 1..Len(tokens) :
          i < j => LocationLess(tokens[i].location, tokens[j].location)
    /\ tokenize_ret.tag = "Ok" => ReturnedTokens = tokens

\* Two tokens at the same column of two lines.
C12_Witness ==
    /\ contents = <<"f","i","r","s","t","\n","s","e","c","o","n","d">>
    /\ tokenize_ret.tag = "Ok"
    /\ ReturnedTokens = <<Token("Identifier", Location(1, 1)),
                          Token("Identifier", Location(2, 1))>>

\* The locations of the tokens of one kind.
LocationsOf(toks, kind) ==
    {toks[i].location : i \in {j \in 1..Len(toks) : toks[j].token_kind = kind}}

\* A table keeps its entries: no key is lost and no value is replaced.
KeepsEntries(old, new) ==
    \A l \in DOMAIN old : l \in DOMAIN new /\ new[l] = old[l]

\* C13: after a successful tokenize_text the keys of the identifier (resp.
\* integer-literal, string-literal) table are exactly the locations of the
\* Identifier (resp. IntegerLiteral, StringLiteral) tokens; a step that
\* pushes a keyword or an operator token inserts nothing; the three key
\* sets are pairwise disjoint; no entry is ever overwritten; and a
\* try_get_* lookup answers for the tokens of its own kind only.
C13_LiteralTables ==
    /\ [](tokenize_ret.tag = "Ok" =>
            LET toks == ReturnedTokens
                ld   == tokenize_ret.value.literal_data
            IN  /\ DOMAIN ld.identifiers = LocationsOf(toks, "Identifier")
                /\ DOMAIN ld.integer_literals
                      = LocationsOf(toks, "IntegerLiteral")
                /\ DOMAIN ld.string_literals
                      = LocationsOf(toks, "StringLiteral")
                /\ DOMAIN ld.identifiers \cap DOMAIN ld.integer_literals = {}
                /\ DOMAIN ld.identifiers \cap DOMAIN ld.string_literals = {}
                /\ DOMAIN ld.integer_literals \cap DOMAIN ld.string_literals = {}
                /\ \A i \in 1..Len(toks) :
                      /\ try_get_identifier(ld, toks[i]) # None
                            <=> toks[i].token_kind = "Identifier"
                      /\ try_get_integer_literal(ld, toks[i]) # None
                            <=> toks[i].token_kind = "IntegerLiteral"
                      /\ try_get_string_literal(ld, toks[i]) # None
                            <=> toks[i].token_kind = "StringLiteral")
    /\ [][/\ KeepsEntries(identifiers, identifiers')
          /\ KeepsEntries(integer_literals, integer_literals')
          /\ KeepsEntries(string_literals, string_literals')
          /\ (/\ Len(tokens') = Len(tokens) + 1
              /\ Last(tokens').token_kind
                    \notin {"Identifier", "IntegerLiteral", "StringLiteral"})
               => UNCHANGED <<identifiers, integer_literals,
                              string_literals>>]_vars

\* A keyword, an identifier, an operator, an integer and a string: one
\* entry in each table.
C13_Witness ==
    /\ contents = <<"m","u","t"," ","x","=","1","_","0","\"","a","\\","n","\"">>
    /\ tokenize_ret.tag = "Ok"
    /\ Kinds(ReturnedTokens) = <<"Mutable", "Identifier", "Assign",
                                 "IntegerLiteral", "StringLiteral">>
    /\ DOMAIN tokenize_ret.value.literal_data.identifiers = {Location(1, 5)}
    /\ DOMAIN tokenize_ret.value.literal_data.integer_literals
          = {Location(1, 7)}
    /\ DOMAIN tokenize_ret.value.literal_data.string_literals
          = {Location(1, 10)}

\* The spellings of a list of operator entries.
Spellings(entries) == {entries[i].chars : i \in 1..Len(entries)}

\* C14: the operator table built from the spelling list has as keys every
\* proper prefix (the empty one included) of every spelling and every full
\* spelling; each full spelling maps to its TokenKind, from the step that
\* inserts it to the end of the construction, in whatever order the entries
\* of the list are inserted; a key is a bare prefix marker only when it is
\* not a full spelling; and the list as written gives the table
\* tokenize_text uses.
C14_TokenMap ==
    /\ \A i \in 1..built :
          /\ other_tokens[i].chars \in DOMAIN token_map
          /\ token_map[other_tokens[i].chars] = Some(other_tokens[i].kind)
    /\ built = Len(other_tokens) =>
          /\ \A i \in 1..Len(other_tokens) :
                \A l \in 0..(Len(other_tokens[i].chars) - 1) :
                    SubSeq(other_tokens[i].chars, 1, l) \in DOMAIN token_map
          /\ \A k \in DOMAIN token_map :
                token_map[k] = None => k \notin Spellings(other_tokens)
    /\ (built = Len(other_tokens) /\ other_tokens = OTHER_TOKENS)
          => token_map = TOKEN_MAP

\* The list inserted in reverse order: `==` before `=`, `->` first.
C14_Witness ==
    /\ other_tokens = Reverse(OTHER_TOKENS)
    /\ built = Len(other_tokens)
    /\ token_map[<<"=">>] = Some("Assign")
    /\ token_map[<<"=", "=">>] = Some("Equal")
    /\ token_map[<<"-">>] = Some("Minus")
    /\ token_map[<< >>] = None

\* The spelling the operator list gives for a kind.
SpellingOf(kind) ==
    LET i == CHOOSE j \in 1..Len(OTHER_TOKENS) : OTHER_TOKENS[j].kind = kind
    IN  OTHER_TOKENS[i].chars

\* The scanner after k calls of advance.
RECURSIVE AdvanceN(_, _)
AdvanceN(sc, k) == IF k = 0 THEN sc ELSE AdvanceN(advance(sc), k - 1)

\* C15: rollback of the lookahead.  A step of the operator matcher that
\* returns a token whose spelling has k code points leaves the scanner
\* (current code point, remaining input and location) exactly k advances
\* after its state at entry; a step that finds no match leaves the scanner
\* exactly as at entry and fails with UnknownToken.  The code points read
\* beyond the best match are still to be read.
C15_Rollback ==
    [][AtBranch("other") =>
         IF Len(tokens') = Len(tokens) + 1
         THEN LET k == Len(SpellingOf(Last(tokens').token_kind))
              IN  /\ chars' = AdvanceN(chars, k)
                  /\ Remaining(chars')
                        = SubSeq(Remaining(chars), k + 1, Len(Remaining(chars)))
         ELSE /\ tokenize_ret'.tag = "Err"
              /\ tokens' = tokens
              /\ chars' = chars]_vars

\* `-` then `=`: the matcher has read `-=`, which is not a key, kept Minus
\* and gone back to the `=`.
C15_Witness ==
    /\ contents = <<"-", "=", "=">>
    /\ tokenize_ret.tag = "Running"
    /\ Kinds(tokens) = <<"Minus">>
    /\ chars = [cur_location |-> Location(1, 2),
                cur_char     |-> Some("="),
                chars        |-> <<"=">>]

\* The literal whose contents begin at index i runs into the end of the
\* input: no unescaped quote closes it, and every backslash before the end
\* is followed by a valid escape specifier or by nothing at all.
EndsInsideString(text, i) ==
    LET e == StringEnd(text, i)
    IN  \/ e.kind = "unterminated"
        \/ e.kind = "escape" /\ e.at > Len(text)

\* C16: unterminated string literals are accepted.  Whenever the end of the
\* input is reached inside a string literal, the string arm does not fail:
\* it pushes a StringLiteral token at the location of the opening quote,
\* stores the text decoded up to the end of the input and leaves the
\* scanner at the end of the input, so that tokenize_text returns Ok.
C16_UnterminatedString ==
    /\ [][(AtBranch("string") /\ EndsInsideString(contents, Pos(chars) + 1))
            => /\ tokenize_ret' = tokenize_ret
               /\ tokens' = Append(tokens, Token("StringLiteral",
                                                 current_location(chars)))
               /\ MapGet(string_literals', current_location(chars))
                    = Some(StringText(contents, Pos(chars) + 1))
               /\ current_char(chars') = None]_vars
    /\ [](tokenize_ret.tag = "Err" =>
            ~(/\ Pos(chars) <= Len(contents)
              /\ contents[Pos(chars)] = "\""
              /\ EndsInsideString(contents, Pos(chars) + 1)))

\* The index in contents of the code point at a location of a token.
IndexOf(location) ==
    CHOOSE i \in 1..Len(contents) : RefLocation(contents, i) = location

Keywords == {"FunctionDefinition", "Mutable", "Struct"}

\* C17: whenever a code point that can start an identifier, ASCII or not,
\* stands directly after the digits and separators of an integer literal,
\* tokenize_text fails with InvalidSuffix at the location of that code
\* point; hence no returned stream holds an IntegerLiteral token whose text
\* is directly followed by an Identifier or a keyword token.
C17_LetterAfterInteger ==
    /\ [][(/\ AtBranch("integer")
           /\ LET j == RunEnd(contents, Pos(chars), IsDigitOrSeparator)
              IN  j <= Len(contents) /\ is_xid_start(contents[j]))
            => /\ tokenize_ret' =
                    Err(TokenizingError(
                          RefLocation(contents,
                                      RunEnd(contents, Pos(chars),
                                             IsDigitOrSeparator)),
                          "InvalidSuffix"))
               /\ tokens' = tokens]_vars
    /\ [](tokenize_ret.tag = "Ok" =>
            \A k \in 1..(Len(ReturnedTokens) - 1) :
                (/\ ReturnedTokens[k].token_kind = "IntegerLiteral"
                 /\ ReturnedTokens[k + 1].token_kind
                       \in Keywords \cup {"Identifier"})
                  => IndexOf(ReturnedTokens[k + 1].location)
                       # RunEnd(contents, IndexOf(ReturnedTokens[k].location),
                                IsDigitOrSeparator))

\* C20: every TokenizingError returned by tokenize_text has a location that
\* designates an existing code point of the input: some code point of the
\* text stands at that line and that column.
C20_ErrorLocationExists ==
    tokenize_ret.tag = "Err" =>
        \E i \in 1..Len(contents) :
            RefLocation(contents, i) = tokenize_ret.error.location

\* struct NAME { n1 : t1 , ... , nk : tk } with k >= 0 entries, the keyword
\* at index from; StructClose is the index of its closing brace.
StructClose(from, k) == from + 3 + (IF k = 0 THEN 0 ELSE 4 * k - 1)

StructAt(toks, from, k) ==
    /\ KindAt(toks, from) = "Struct"
    /\ KindAt(toks, from + 1) = "Identifier"
    /\ KindAt(toks, from + 2) = "OpenBraces"
    /\ EntriesAt(toks, from + 3, k)
    /\ KindAt(toks, StructClose(from, k)) = "CloseBraces"

\* The structures a stream declares from index from on, when the stream is
\* a sequence of complete struct declarations from there to its end; None
\* otherwise.
RECURSIVE DeclaredStructs(_, _)
DeclaredStructs(toks, from) ==
    IF from > Len(toks) THEN Some(<< >>)
    ELSE IF \E k \in 0..Len(toks) : StructAt(toks, from, k)
    THEN LET k    == CHOOSE n \in 0..Len(toks) : StructAt(toks, from, n)
             rest == DeclaredStructs(toks, StructClose(from, k) + 1)
         IN  IF rest = None THEN None
             ELSE Some(<<Structure(NameAt(toks, from + 1),
                                   EntryList(toks, from + 3, k))>> \o rest[1])
    ELSE None

\* C18: from_tokens returns Ok only when every token of the stream has been
\* consumed as a sequence of complete declarations, the structures listed in
\* the order met (no function is listed: a complete fn declaration never
\* returns, see C8); a token other than fn or struct where a declaration
\* starts yields the ParseError with that token and the expected set
\* [fn, struct]; the empty stream yields Ok with both sequences empty.
C18_FromTokens ==
    /\ []((pc = "returned" /\ parse_ret.tag = "Ok") =>
            /\ token_iter = << >>
            /\ DeclaredStructs(ReturnedTokens, 1) = Some(parse_ret.value.structs)
            /\ parse_ret.value.functions = << >>)
    /\ [][(/\ pc = "from_tokens"
           /\ token_iter # << >>
           /\ Head(token_iter).token_kind \notin {"FunctionDefinition", "Struct"})
            => /\ parse_ret' = Err(ParseError(Some(Head(token_iter)),
                                              <<"FunctionDefinition", "Struct">>))
               /\ pc' = "returned"]_vars
    /\ []((pc = "returned" /\ ReturnedTokens = << >>)
            => parse_ret = Ok(Program(<< >>, << >>)))

\* Two structures, returned in the order written.
C18_Witness ==
    /\ contents = Join(StructLexemes(<<"Q">>, << <<"y">>, <<"x">> >>, FALSE)
                       \o StructLexemes(<<"E">>, << >>, FALSE))
    /\ pc = "returned"
    /\ parse_ret =
         Ok(Program(<< >>,
                    <<Structure(<<"Q">>, << <<<<"y">>, <<"j","8">>>>,
                                            <<<<"x">>, <<"i">>>> >>),
                      Structure(<<"E">>, << >>)>>))

\* C19: every ParseError carries the token at which the mismatch occurred.
\* The step that fails has consumed exactly one token, the offending one,
\* which the error carries; the error carries no token exactly when the
\* stream had ended where a token was required; and nothing is consumed
\* after the error: the first error ends the parse.
C19_ParseErrorToken ==
    /\ [][(parse_ret.tag = "Running" /\ parse_ret'.tag = "Err") =>
            IF token_iter = << >>
            THEN /\ parse_ret'.error.token = None
                 /\ token_iter' = << >>
            ELSE /\ parse_ret'.error.token = Some(Head(token_iter))
                 /\ token_iter' = Tail(token_iter)]_vars
    /\ [](parse_ret.tag = "Err" =>
            LET n == Len(ReturnedTokens) - Len(token_iter)
            IN  /\ pc = "returned"
                /\ ~ENABLED Next
                /\ IF parse_ret.error.token = None
                   THEN n = Len(ReturnedTokens)
                   ELSE n >= 1 /\ parse_ret.error.token = Some(ReturnedTokens[n]))
    /\ [][parse_ret.tag = "Err" => UNCHANGED <<token_iter, parse_ret>>]_vars

\* struct P { x and the end of the stream where the `:` is required.
C19_Witness ==
    /\ contents = Join(<<KwStruct, <<"P">>, <<"{">>, <<"x">> >>)
    /\ parse_ret = Err(ParseError(None, <<"FieldTypeSeparator">>))
    /\ token_iter = << >>

\* The number of code points the scanner has still to read.
Unread(sc) == Len(Remaining(sc))

\* C21: tokenize_text terminates on every finite input: every iteration of
\* its loop returns or leaves the scanner strictly further into the input,
\* and the operator matcher never reports a token without consuming a code
\* point; so tokenize_text eventually returns.  from_tokens terminates on
\* every finite stream: every step of it consumes a token, returns, or is
\* the peek that is followed by the consuming expect_identifier; so, once
\* given a stream, from_tokens eventually returns or panics.
C21_Termination ==
    /\ [][tokenize_ret.tag = "Running" =>
            \/ tokenize_ret'.tag # "Running"
            \/ Unread(chars') < Unread(chars)]_vars
    /\ [][(AtBranch("other") /\ Len(tokens') > Len(tokens))
            => Unread(chars') < Unread(chars)]_vars
    /\ [][pc \notin {"idle", "returned"} =>
            \/ Len(token_iter') < Len(token_iter)
            \/ pc' = "returned"
            \/ pc = "list_start" /\ pc' = "list_name"]_vars
    /\ [][pc = "from_tokens" =>
            \/ Len(token_iter') < Len(token_iter)
            \/ pc' = "returned"]_vars
    /\ <>(tokenize_ret.tag # "Running")
    /\ [](tokenize_ret.tag = "Ok" => <>(pc = "returned"))

\* hello, world! read to its end in several iterations, and the parse of
\* its four tokens ended.
C21_Witness ==
    /\ contents = <<"h","e","l","l","o",","," ","w","o","r","l","d","!">>
    /\ tokenize_ret.tag = "Ok"
    /\ Len(ReturnedTokens) = 4
    /\ current_char(chars) = None
    /\ pc = "returned"

=============================================================================
